---- MODULE Spec2Model ----
(***************************************************************************)
(* Model of two solvers of tscircuit-autorouter:                           *)
(*                                                                         *)
(*   CapacitySegmentToPointSolver       (specification Spec)               *)
(*   CapacityPathingSingleSectionSolver (specification SpecSection)        *)
(*                                                                         *)
(* JavaScript objects are references: a segment object lives in `heap`     *)
(* under its identity and the solver's arrays hold identities, so that     *)
(* indexOf/splice/push and the in-place write of assignedPoints behave as  *)
(* in the source.  JavaScript numbers are modelled as exact rationals      *)
(* (num/den in lowest terms); floating point rounding is not modelled.     *)
(* Strings that are sorted are sequences of UTF-16 code units.             *)
(***************************************************************************)
EXTENDS Integers, Sequences, FiniteSets, TLC

VARIABLES
  \* CapacitySegmentToPointSolver
  heap,               \* segment identity -> segment object
  unsolvedSegments,   \* this.unsolvedSegments (array of segment references)
  solvedSegments,     \* this.solvedSegments   (array of segment references)
  solved,             \* BaseSolver.solved
  failed,             \* BaseSolver.failed
  iterations,         \* BaseSolver.iterations
  resolvedBy,         \* history: segment identity -> phase that assigned it
  lastCall,           \* the last call made by the driver and what it returned
  \* CapacityPathingSingleSectionSolver
  section,            \* the extractor's own fields
  activeSubSolver     \* the sub-solver's observable fields

segVars == <<heap, unsolvedSegments, solvedSegments, solved, failed,
             iterations, resolvedBy>>
vars == <<heap, unsolvedSegments, solvedSegments, solved, failed, iterations,
          resolvedBy, lastCall, section, activeSubSolver>>

----------------------------------------------------------------------------
(* Bounds of the model *)

MaxSegments == 3
MaxEdges == 3
MaxSteps == 2

\* this.MAX_ITERATIONS = 100_000
MAX_ITERATIONS == 100000

Max(a, b) == IF a >= b THEN a ELSE b

Range(s) == {s[i] : i \in 1..Len(s)}

----------------------------------------------------------------------------
(* JavaScript numbers as exact rationals *)

Abs(i) == IF i < 0 THEN -i ELSE i

RECURSIVE Gcd(_, _)
Gcd(a, b) == IF b = 0 THEN a ELSE Gcd(b, a % b)

\* n/d in lowest terms with a positive denominator (d # 0)
Num(n, d) ==
  LET g == Gcd(Abs(n), Abs(d))
      s == IF d < 0 THEN -1 ELSE 1
  IN [num |-> (s * n) \div g, den |-> (s * d) \div g]

IntNum(i) == [num |-> i, den |-> 1]

NumAdd(a, b) == Num(a.num * b.den + b.num * a.den, a.den * b.den)
NumMul(a, b) == Num(a.num * b.num, a.den * b.den)
NumDiv(a, b) == Num(a.num * b.den, a.den * b.num)

----------------------------------------------------------------------------
(* Strings as sequences of UTF-16 code units, and Array.prototype.sort()   *)
(* with the default comparator                                             *)

StrA == <<65>>
StrB == <<66>>
StrC == <<67>>
StrAB == <<65, 66>>
Stra == <<97>>

\* a < b as the default comparator of sort() compares two strings
StrLess(a, b) ==
  \E k \in 1..(Len(a) + 1) :
    /\ k <= Len(b)
    /\ \A j \in 1..(k - 1) : a[j] = b[j]
    /\ (k = Len(a) + 1 \/ a[k] < b[k])

RECURSIVE SortInsert(_, _)
SortInsert(sorted, x) ==
  IF sorted = <<>> THEN <<x>>
  ELSE IF StrLess(x, Head(sorted)) THEN <<x>> \o sorted
  ELSE <<Head(sorted)>> \o SortInsert(Tail(sorted), x)

RECURSIVE SortFrom(_, _)
SortFrom(s, acc) ==
  IF s = <<>> THEN acc ELSE SortFrom(Tail(s), SortInsert(acc, Head(s)))

\* [...candidate.connectionNames].sort()
Sort(s) == SortFrom(s, <<>>)

----------------------------------------------------------------------------
(* Array helpers *)

\* Array.prototype.indexOf, 1-based; 0 stands for JavaScript's -1
RECURSIVE IndexOfFrom(_, _, _)
IndexOfFrom(arr, x, k) ==
  IF k > Len(arr) THEN 0
  ELSE IF arr[k] = x THEN k
  ELSE IndexOfFrom(arr, x, k + 1)

IndexOf(arr, x) == IndexOfFrom(arr, x, 1)

RemoveAt(arr, k) == SubSeq(arr, 1, k - 1) \o SubSeq(arr, k + 1, Len(arr))

\* arr.splice(arr.indexOf(x), 1): splice(-1, 1) removes the last element
SpliceIndexOf(arr, x) ==
  LET k == IndexOf(arr, x)
  IN IF k > 0 THEN RemoveAt(arr, k)
     ELSE IF arr = <<>> THEN arr
     ELSE RemoveAt(arr, Len(arr))

----------------------------------------------------------------------------
(* CapacitySegmentToPointSolver: inputs *)

\* The mesh nodes handed to the constructors
Nodes ==
  << [capacityMeshNodeId |-> "n0", center |-> [x |-> 0, y |-> 0],
      width |-> 2, height |-> 4],
     [capacityMeshNodeId |-> "n1", center |-> [x |-> 5, y |-> 1],
      width |-> 6, height |-> 8],
     [capacityMeshNodeId |-> "n2", center |-> [x |-> 9, y |-> 1],
      width |-> 2, height |-> 2],
     [capacityMeshNodeId |-> "n3", center |-> [x |-> 9, y |-> 7],
      width |-> 4, height |-> 2] >>

\* this.nodeMap = Object.fromEntries(nodes.map(...)): a later entry wins
nodeMap ==
  [id \in {Nodes[i].capacityMeshNodeId : i \in 1..Len(Nodes)} |->
     Nodes[CHOOSE i \in 1..Len(Nodes) :
             /\ Nodes[i].capacityMeshNodeId = id
             /\ \A j \in (i + 1)..Len(Nodes) : Nodes[j].capacityMeshNodeId # id]]

\* Geometry, layers and owning node of the input segments
SegmentShapes ==
  { [capacityMeshNodeId |-> "n0", start |-> [x |-> 0, y |-> 0],
     end |-> [x |-> 9, y |-> 0], availableZ |-> <<0>>],
    [capacityMeshNodeId |-> "n1", start |-> [x |-> 2, y |-> 6],
     end |-> [x |-> 2, y |-> 1], availableZ |-> <<1, 0>>] }

\* The connectionNames lists of the input segments
ConnectionNameLists ==
  { <<>>, <<StrA>>, <<StrB>>, <<StrB, StrA>>, <<StrC, StrA, StrB>>,
    <<Stra, StrB, StrAB>> }

\* A NodePortSegment as it is handed to the constructor: no assignedPoints
NodePortSegment(shape, names) ==
  [capacityMeshNodeId |-> shape.capacityMeshNodeId,
   start |-> shape.start, end |-> shape.end,
   availableZ |-> shape.availableZ,
   connectionNames |-> names,
   hasAssignedPoints |-> FALSE,
   assignedPoints |-> <<>>]

SegmentPool ==
  {NodePortSegment(sh, nm) : sh \in SegmentShapes, nm \in ConnectionNameLists}

----------------------------------------------------------------------------
(* CapacitySegmentToPointSolver._step *)

\* Phase A: the center of a single-connection segment
CenterWrongZ(seg) ==
  [x |-> NumDiv(IntNum(seg.start.x + seg.end.x), IntNum(2)),
   y |-> NumDiv(IntNum(seg.start.y + seg.end.y), IntNum(2)),
   z |-> seg.availableZ[Len(seg.availableZ)]]

Center(seg) ==
  [x |-> NumDiv(IntNum(seg.start.x + seg.end.x), IntNum(2)),
   y |-> NumDiv(IntNum(seg.start.y + seg.end.y), IntNum(2)),
   z |-> seg.availableZ[1]]

\* Move seg from unsolvedSegments to solvedSegments
MoveKeepsUnsolved(st, id) ==
  [st EXCEPT !.solvedSegments = Append(st.solvedSegments, id)]

MoveRemovesFirst(st, id) ==
  [st EXCEPT !.unsolvedSegments = Tail(st.unsolvedSegments),
             !.solvedSegments = Append(st.solvedSegments, id)]

MoveToSolved(st, id) ==
  [st EXCEPT !.unsolvedSegments = SpliceIndexOf(st.unsolvedSegments, id),
             !.solvedSegments = Append(st.solvedSegments, id)]

\* The loop over the copy `unsolved`, from its k-th element on
RECURSIVE PhaseA(_, _, _)
PhaseA(unsolved, k, st) ==
  IF k > Len(unsolved) THEN st
  ELSE
    LET id == unsolved[k]
        seg == st.heap[id]
        n == Len(seg.connectionNames)
    IN IF seg.hasAssignedPoints /\ Len(seg.assignedPoints) = n
       THEN PhaseA(unsolved, k + 1, st)
       ELSE IF n = 1
       THEN LET assigned ==
                  [seg EXCEPT !.hasAssignedPoints = TRUE,
                              !.assignedPoints =
                                 << [connectionName |-> seg.connectionNames[1],
                                     point |-> Center(seg)] >>]
                st1 == [st EXCEPT !.heap = [st.heap EXCEPT ![id] = assigned],
                                  !.updated = TRUE]
            IN PhaseA(unsolved, k + 1, MoveToSolved(st1, id))
       ELSE PhaseA(unsolved, k + 1, st)

\* The unsolved segment with the fewest connections, first found wins
RECURSIVE CandidateLastWins(_, _, _, _)
CandidateLastWins(h, unsolved, k, candidate) ==
  IF k > Len(unsolved) THEN candidate
  ELSE IF Len(h[unsolved[k]].connectionNames)
            <= Len(h[candidate].connectionNames)
       THEN CandidateLastWins(h, unsolved, k + 1, unsolved[k])
       ELSE CandidateLastWins(h, unsolved, k + 1, candidate)

RECURSIVE Candidate(_, _, _, _)
Candidate(h, unsolved, k, candidate) ==
  IF k > Len(unsolved) THEN candidate
  ELSE IF Len(h[unsolved[k]].connectionNames)
            < Len(h[candidate].connectionNames)
       THEN Candidate(h, unsolved, k + 1, unsolved[k])
       ELSE Candidate(h, unsolved, k + 1, candidate)

\* The evenly spaced points of the fallback
FallbackPoint(seg, i, n) ==
  LET dx == IntNum(seg.end.x - seg.start.x)
      dy == IntNum(seg.end.y - seg.start.y)
      fraction == NumDiv(IntNum(i), IntNum(n + 1))
  IN [x |-> NumAdd(IntNum(seg.start.x), NumMul(dx, fraction)),
      y |-> NumAdd(IntNum(seg.start.y), NumMul(dy, fraction)),
      z |-> seg.availableZ[1]]

FallbackUnsorted(seg) ==
  LET sortedConnections == seg.connectionNames
      n == Len(sortedConnections)
  IN [idx \in 1..n |->
        [connectionName |-> sortedConnections[idx],
         point |-> FallbackPoint(seg, idx, n)]]

FallbackAssignedPoints(seg) ==
  LET sortedConnections == Sort(seg.connectionNames)
      n == Len(sortedConnections)
  IN [idx \in 1..n |->
        [connectionName |-> sortedConnections[idx],
         point |-> FallbackPoint(seg, idx, n)]]

FallbackReadsFirstUnsolved(unsolved, st) ==
  LET id == Candidate(st.heap, unsolved, 1, unsolved[1])
      seg == st.heap[id]
      first == [st.heap[unsolved[1]] EXCEPT
                  !.connectionNames = seg.connectionNames]
      assigned == [seg EXCEPT !.hasAssignedPoints = TRUE,
                              !.assignedPoints = FallbackAssignedPoints(first)]
      st1 == [st EXCEPT !.heap = [st.heap EXCEPT ![id] = assigned],
                        !.updated = TRUE,
                        !.fallback = TRUE]
  IN MoveToSolved(st1, id)

Fallback(unsolved, st) ==
  LET id == Candidate(st.heap, unsolved, 1, unsolved[1])
      seg == st.heap[id]
      assigned == [seg EXCEPT !.hasAssignedPoints = TRUE,
                              !.assignedPoints = FallbackAssignedPoints(seg)]
      st1 == [st EXCEPT !.heap = [st.heap EXCEPT ![id] = assigned],
                        !.updated = TRUE,
                        !.fallback = TRUE]
  IN MoveToSolved(st1, id)

\* One call of _step on the state (h, us, ss, sv)
InnerStepRunsBothPhases(h, us, ss, sv) ==
  LET unsolved == us
      st0 == [heap |-> h, unsolvedSegments |-> us, solvedSegments |-> ss,
              updated |-> FALSE, fallback |-> FALSE]
      stA == PhaseA(unsolved, 1, st0)
      stB == IF Len(stA.unsolvedSegments) > 0
             THEN Fallback(stA.unsolvedSegments, stA)
             ELSE stA
  IN [heap |-> stB.heap,
      unsolvedSegments |-> stB.unsolvedSegments,
      solvedSegments |-> stB.solvedSegments,
      solved |-> IF Len(stB.unsolvedSegments) = 0 THEN TRUE ELSE sv,
      phase |-> IF stB.fallback THEN "B"
                ELSE IF stA.updated THEN "A" ELSE "none"]

InnerStep(h, us, ss, sv) ==
  LET unsolved == us
      st0 == [heap |-> h, unsolvedSegments |-> us, solvedSegments |-> ss,
              updated |-> FALSE, fallback |-> FALSE]
      stA == PhaseA(unsolved, 1, st0)
      stB == IF ~stA.updated /\ Len(unsolved) > 0
             THEN Fallback(unsolved, stA)
             ELSE stA
  IN [heap |-> stB.heap,
      unsolvedSegments |-> stB.unsolvedSegments,
      solvedSegments |-> stB.solvedSegments,
      solved |-> IF Len(stB.unsolvedSegments) = 0 THEN TRUE ELSE sv,
      phase |-> IF stB.fallback THEN "B"
                ELSE IF stA.updated THEN "A" ELSE "none"]

----------------------------------------------------------------------------
(* CapacitySegmentToPointSolver.getNodesWithPortPoints *)

\* if (!this.solved) throw
QueryGuardByUnsolved(sv, us) == Len(us) > 0

QueryThrows(sv, us) == ~sv

PortPoints(seg) ==
  [i \in 1..Len(seg.assignedPoints) |->
     [x |-> seg.assignedPoints[i].point.x,
      y |-> seg.assignedPoints[i].point.y,
      z |-> seg.assignedPoints[i].point.z,
      connectionName |-> seg.assignedPoints[i].connectionName]]

\* The Map, in insertion order, after the first k solved segments
RECURSIVE NodesWithPortPointsOverwrites(_, _, _)
NodesWithPortPointsOverwrites(h, ss, k) ==
  IF k = 0 THEN <<>>
  ELSE
    LET map == NodesWithPortPointsOverwrites(h, ss, k - 1)
        seg == h[ss[k]]
        nodeId == seg.capacityMeshNodeId
        node == nodeMap[nodeId]
        has == \E i \in 1..Len(map) : map[i].capacityMeshNodeId = nodeId
        map1 == IF has THEN map
                ELSE Append(map, [capacityMeshNodeId |-> nodeId,
                                  portPoints |-> <<>>,
                                  center |-> node.center,
                                  width |-> node.width,
                                  height |-> node.height])
    IN [i \in 1..Len(map1) |->
          IF map1[i].capacityMeshNodeId = nodeId
          THEN [map1[i] EXCEPT !.portPoints = PortPoints(seg)]
          ELSE map1[i]]

RECURSIVE NodesWithPortPoints(_, _, _)
NodesWithPortPoints(h, ss, k) ==
  IF k = 0 THEN <<>>
  ELSE
    LET map == NodesWithPortPoints(h, ss, k - 1)
        seg == h[ss[k]]
        nodeId == seg.capacityMeshNodeId
        node == nodeMap[nodeId]
        has == \E i \in 1..Len(map) : map[i].capacityMeshNodeId = nodeId
        map1 == IF has THEN map
                ELSE Append(map, [capacityMeshNodeId |-> nodeId,
                                  portPoints |-> <<>>,
                                  center |-> node.center,
                                  width |-> node.width,
                                  height |-> node.height])
    IN [i \in 1..Len(map1) |->
          IF map1[i].capacityMeshNodeId = nodeId
          THEN [map1[i] EXCEPT !.portPoints = @ \o PortPoints(seg)]
          ELSE map1[i]]

getNodesWithPortPoints(h, ss, sv, us) ==
  IF QueryThrows(sv, us)
  THEN [op |-> "getNodesWithPortPoints", threw |-> TRUE, value |-> <<>>]
  ELSE [op |-> "getNodesWithPortPoints", threw |-> FALSE,
        value |-> NodesWithPortPoints(h, ss, Len(ss))]

----------------------------------------------------------------------------
(* CapacityPathingSingleSectionSolver: inputs *)

NodeIds == {Nodes[i].capacityMeshNodeId : i \in 1..Len(Nodes)}

\* Mesh edges: the path n0-n1-n2-n3 (n1-n2 given reversed), the chord n0-n3
\* that closes it to a cycle, and a self-loop
EdgePool ==
  { [nodeIds |-> <<"n0", "n1">>], [nodeIds |-> <<"n2", "n1">>],
    [nodeIds |-> <<"n2", "n3">>], [nodeIds |-> <<"n0", "n3">>],
    [nodeIds |-> <<"n1", "n1">>] }

RECURSIVE SeqsUpTo(_, _)
SeqsUpTo(S, n) ==
  IF n = 0 THEN {<<>>}
  ELSE LET shorter == SeqsUpTo(S, n - 1)
       IN shorter \cup {Append(q, x) : q \in shorter, x \in S}

\* A connection path; hasPath = FALSE stands for conn.path being undefined.
\* path holds the capacityMeshNodeId of each node of the path.
ConnectionPath(name, hasPath, path) ==
  [connection |-> [name |-> name], hasPath |-> hasPath, path |-> path]

ConnectionLists ==
  { <<>>,
    <<ConnectionPath("c1", TRUE, <<"n0", "n1", "n2", "n3">>)>>,
    <<ConnectionPath("c1", TRUE, <<"n3">>),
      ConnectionPath("c2", TRUE, <<"n3", "n2", "n0">>)>>,
    <<ConnectionPath("c1", FALSE, <<>>),
      ConnectionPath("c2", TRUE, <<"n2", "n3", "n1", "n3">>)>>,
    <<ConnectionPath("c1", TRUE, <<>>),
      ConnectionPath("c1", TRUE, <<"n1">>)>> }

\* params.hyperParameters?.EXPANSION_DEGREES; <<>> stands for undefined
ExpansionDegreesInputs == {<<>>, <<0>>, <<1>>, <<2>>}

\* params.hyperParameters?.EXPANSION_DEGREES ?? 3
expansionDegreesOf(input) == IF input = <<>> THEN 3 ELSE input[1]

----------------------------------------------------------------------------
(* CapacityPathingSingleSectionSolver.computeSectionNodesTerminalsAndEdges *)

\* getNodeEdgeMap(edges).get(nodeId): the edges that touch nodeId, in input
\* order; <<>> also stands for a missing entry
getNodeEdgeMap(edges, nodeId) ==
  SelectSeq(edges, LAMBDA e : nodeId \in Range(e.nodeIds))

\* ?.flatMap((edge) => edge.nodeIds.filter((id) => id !== nodeId)) ?? []
RECURSIVE Neighbors(_, _)
Neighbors(nodeEdges, nodeId) ==
  IF nodeEdges = <<>> THEN <<>>
  ELSE SelectSeq(Head(nodeEdges).nodeIds, LAMBDA id : id # nodeId)
         \o Neighbors(Tail(nodeEdges), nodeId)

\* for (const neighborId of neighbors), from the k-th neighbor on;
\* bfs = [queue, sectionNodeIds (in insertion order)]
RECURSIVE VisitNeighbors(_, _, _, _)
VisitNeighbors(neighbors, k, depth, bfs) ==
  IF k > Len(neighbors) THEN bfs
  ELSE IF neighbors[k] \in Range(bfs.sectionNodeIds)
       THEN VisitNeighbors(neighbors, k + 1, depth, bfs)
       ELSE VisitNeighbors(neighbors, k + 1, depth,
              [queue |-> Append(bfs.queue,
                                [nodeId |-> neighbors[k], depth |-> depth + 1]),
               sectionNodeIds |-> Append(bfs.sectionNodeIds, neighbors[k])])

\* if (depth >= this.expansionDegrees) continue
StopsLate(depth, expansionDegrees) == depth > expansionDegrees

StopsExpanding(depth, expansionDegrees) == depth >= expansionDegrees

\* while (head < queue.length); head is 1-based here
RECURSIVE Bfs(_, _, _, _)
Bfs(edges, expansionDegrees, head, bfs) ==
  IF head > Len(bfs.queue) THEN bfs.sectionNodeIds
  ELSE
    LET nodeId == bfs.queue[head].nodeId
        depth == bfs.queue[head].depth
    IN IF StopsExpanding(depth, expansionDegrees)
       THEN Bfs(edges, expansionDegrees, head + 1, bfs)
       ELSE Bfs(edges, expansionDegrees, head + 1,
                VisitNeighbors(Neighbors(getNodeEdgeMap(edges, nodeId), nodeId),
                               1, depth, bfs))

sectionNodeIdsOf(centerNodeId, edges, expansionDegrees) ==
  Bfs(edges, expansionDegrees, 1,
      [queue |-> <<[nodeId |-> centerNodeId, depth |-> 0]>>,
       sectionNodeIds |-> <<centerNodeId>>])

\* this.nodeMap.get(id)!
nodeMapGet(id) ==
  Nodes[CHOOSE i \in 1..Len(Nodes) :
          /\ Nodes[i].capacityMeshNodeId = id
          /\ \A j \in (i + 1)..Len(Nodes) : Nodes[j].capacityMeshNodeId # id]

\* this.edges.filter(...)
EitherEndpointInSection(edge, ids) ==
  edge.nodeIds[1] \in Range(ids) \/ edge.nodeIds[2] \in Range(ids)

BothEndpointsInSection(edge, ids) ==
  edge.nodeIds[1] \in Range(ids) /\ edge.nodeIds[2] \in Range(ids)

RECURSIVE FilterEdges(_, _)
FilterEdges(edges, ids) ==
  IF edges = <<>> THEN <<>>
  ELSE IF BothEndpointsInSection(Head(edges), ids)
       THEN <<Head(edges)>> \o FilterEdges(Tail(edges), ids)
       ELSE FilterEdges(Tail(edges), ids)

\* The first node of the path inside the section; <<>> stands for null
RECURSIVE FirstInSection(_, _, _)
FirstInSection(path, ids, i) ==
  IF i > Len(path) THEN <<>>
  ELSE IF path[i] \in Range(ids) THEN <<path[i]>>
  ELSE FirstInSection(path, ids, i + 1)

\* The last node of the path inside the section, scanning backward from i
RECURSIVE LastInSectionFrom(_, _, _)
LastInSectionFrom(path, ids, i) ==
  IF i < 1 THEN <<>>
  ELSE IF path[i] \in Range(ids) THEN <<path[i]>>
  ELSE LastInSectionFrom(path, ids, i - 1)

LastScansForward(path, ids) == FirstInSection(path, ids, 1)

LastInSection(path, ids) == LastInSectionFrom(path, ids, Len(path))

\* JavaScript truthiness of a node id or null
Truthy(v) == v # <<>> /\ v[1] # ""

RECURSIVE Terminals(_, _)
Terminals(conns, ids) ==
  IF conns = <<>> THEN <<>>
  ELSE
    LET conn == Head(conns)
        rest == Terminals(Tail(conns), ids)
    IN IF ~conn.hasPath THEN rest
       ELSE
         LET startNodeId == FirstInSection(conn.path, ids, 1)
             endNodeId == LastInSection(conn.path, ids)
         IN IF Truthy(startNodeId) /\ Truthy(endNodeId)
            THEN <<[connectionName |-> conn.connection.name,
                    startNodeId |-> startNodeId[1],
                    endNodeId |-> endNodeId[1]]>> \o rest
            ELSE rest

\* The constructor
NewSection(centerNodeId, connectionsWithNodes, edges, degreesInput) ==
  LET expansionDegrees == expansionDegreesOf(degreesInput)
      ids == sectionNodeIdsOf(centerNodeId, edges, expansionDegrees)
  IN [centerNodeId |-> centerNodeId,
      connectionsWithNodes |-> connectionsWithNodes,
      nodes |-> Nodes,
      edges |-> edges,
      expansionDegrees |-> expansionDegrees,
      sectionNodes |-> [i \in 1..Len(ids) |-> nodeMapGet(ids[i])],
      sectionEdges |-> FilterEdges(edges, ids),
      sectionConnectionTerminals |-> Terminals(connectionsWithNodes, ids),
      solved |-> FALSE,
      failed |-> FALSE,
      error |-> <<>>,
      iterations |-> 0]

----------------------------------------------------------------------------
(* The sub-solver (HyperCapacityPathingSingleSectionPathingSolver), seen     *)
(* through step(), solved, failed and error.  error: <<>> stands for null.   *)

\* new HyperCapacityPathingSingleSectionPathingSolver({...})
NewSubSolverWithoutEdges(sec) ==
  [sectionConnectionTerminals |-> sec.sectionConnectionTerminals,
   sectionNodes |-> sec.sectionNodes,
   sectionEdges |-> <<>>,
   solved |-> FALSE, failed |-> FALSE, error |-> <<>>,
   stepCalls |-> 0]

NewSubSolver(sec) ==
  [sectionConnectionTerminals |-> sec.sectionConnectionTerminals,
   sectionNodes |-> sec.sectionNodes,
   sectionEdges |-> sec.sectionEdges,
   solved |-> FALSE, failed |-> FALSE, error |-> <<>>,
   stepCalls |-> 0]

\* What one unit of work may leave in the sub-solver's fields
SubOutcomes ==
  { [solved |-> FALSE, failed |-> FALSE, error |-> <<>>],
    [solved |-> TRUE, failed |-> FALSE, error |-> <<>>],
    [solved |-> FALSE, failed |-> TRUE, error |-> <<"no path">>],
    [solved |-> FALSE, failed |-> TRUE, error |-> <<"ran out of iterations">>],
    [solved |-> TRUE, failed |-> TRUE, error |-> <<"no path">>] }

\* this.activeSubSolver.step(): a no-op once the sub-solver is terminal
SubSolverStep(sub, outcome) ==
  IF sub.solved \/ sub.failed
  THEN [sub EXCEPT !.stepCalls = @ + 1]
  ELSE [sub EXCEPT !.solved = outcome.solved,
                   !.failed = outcome.failed,
                   !.error = outcome.error,
                   !.stepCalls = @ + 1]

----------------------------------------------------------------------------
(* CapacityPathingSingleSectionSolver._step *)

\* The part of _step after this.activeSubSolver?.step(); sub is the
\* sub-solver as that call left it
MirrorOwnError(sec, sub) ==
  IF sub.solved THEN [sec EXCEPT !.solved = TRUE]
  ELSE IF sub.failed
       THEN [sec EXCEPT !.failed = TRUE,
                        !.error = <<"CapacityPathingSingleSectionSolver failed">>]
       ELSE sec

MirrorIgnoresSolved(sec, sub) ==
  IF sub.failed THEN [sec EXCEPT !.failed = TRUE, !.error = sub.error]
  ELSE sec

MirrorWithoutReturn(sec, sub) ==
  LET sec1 == IF sub.solved THEN [sec EXCEPT !.solved = TRUE] ELSE sec
  IN IF sub.failed
     THEN [sec1 EXCEPT !.failed = TRUE, !.error = sub.error]
     ELSE sec1

MirrorSubSolver(sec, sub) ==
  IF sub.solved THEN [sec EXCEPT !.solved = TRUE]
  ELSE IF sub.failed
       THEN [sec EXCEPT !.failed = TRUE, !.error = sub.error]
       ELSE sec

----------------------------------------------------------------------------
(* The state after construction *)

NoCall == [op |-> "none", threw |-> FALSE, value |-> <<>>]

\* new CapacitySegmentToPointSolver({segments, nodes}) for a list of n
\* distinct segment objects
InitSegments(n) ==
  /\ heap \in [1..n -> SegmentPool]
  /\ unsolvedSegments = [i \in 1..n |-> i]
  /\ solvedSegments = <<>>
  /\ solved = FALSE
  /\ failed = FALSE
  /\ iterations = 0
  /\ resolvedBy = [i \in 1..n |-> "none"]

\* new CapacityPathingSingleSectionSolver(params)
InitSection(centers, connLists, edgeLists, degrees) ==
  /\ \E c \in centers, conns \in connLists, edges \in edgeLists, d \in degrees :
       section = NewSection(c, conns, edges, d)
  /\ activeSubSolver = NewSubSolver(section)

Init ==
  /\ \E n \in 0..MaxSegments : InitSegments(n)
  /\ InitSection({"n1"}, {<<>>}, {<<>>}, {<<>>})
  /\ lastCall = NoCall

InitSectionSpec ==
  /\ InitSegments(0)
  /\ InitSection({"n0", "n1"}, ConnectionLists, SeqsUpTo(EdgePool, MaxEdges),
                 ExpansionDegreesInputs)
  /\ lastCall = NoCall

----------------------------------------------------------------------------
(* The calls of the driver *)

\* step() does work while the solver is in no terminal state; the driver of
\* the model stops after StepBound calls
StepBound == MaxSegments + 2

CanStep == ~solved /\ ~failed /\ iterations < StepBound

\* BaseSolver.step() of CapacitySegmentToPointSolver in a non-terminal state
Step ==
  /\ CanStep
  /\ LET r == InnerStep(heap, unsolvedSegments, solvedSegments, solved)
     IN /\ heap' = r.heap
        /\ unsolvedSegments' = r.unsolvedSegments
        /\ solvedSegments' = r.solvedSegments
        /\ solved' = r.solved
        /\ resolvedBy' =
             [i \in DOMAIN resolvedBy |->
                IF i \in Range(r.solvedSegments) /\ i \notin Range(solvedSegments)
                THEN r.phase ELSE resolvedBy[i]]
  /\ iterations' = iterations + 1
  /\ lastCall' = [op |-> "step", threw |-> FALSE, value |-> <<>>]
  /\ UNCHANGED <<failed, section, activeSubSolver>>

\* BaseSolver.step() in a terminal state
StepTerminal ==
  /\ solved \/ failed
  /\ lastCall' = [op |-> "step", threw |-> FALSE, value |-> <<>>]
  /\ UNCHANGED <<segVars, section, activeSubSolver>>

GetNodesWithPortPoints ==
  /\ lastCall' = getNodesWithPortPoints(heap, solvedSegments, solved,
                                        unsolvedSegments)
  /\ UNCHANGED <<segVars, section, activeSubSolver>>

\* BaseSolver.step() of CapacityPathingSingleSectionSolver, non-terminal
SectionStep ==
  /\ ~section.solved /\ ~section.failed
  /\ section.iterations < MaxSteps
  /\ \E outcome \in SubOutcomes :
       LET sub == SubSolverStep(activeSubSolver, outcome)
       IN /\ activeSubSolver' = sub
          /\ section' = MirrorSubSolver(
                          [section EXCEPT !.iterations = @ + 1], sub)
  /\ lastCall' = [op |-> "sectionStep", threw |-> FALSE, value |-> <<>>]
  /\ UNCHANGED segVars

SectionStepTerminalForwards ==
  /\ section.solved \/ section.failed
  /\ lastCall' = [op |-> "sectionStepTerminal", threw |-> FALSE, value |-> <<>>]
  /\ activeSubSolver' = [activeSubSolver EXCEPT !.stepCalls = @ + 1]
  /\ UNCHANGED <<segVars, section>>

SectionStepTerminal ==
  /\ section.solved \/ section.failed
  /\ lastCall' = [op |-> "sectionStepTerminal", threw |-> FALSE, value |-> <<>>]
  /\ UNCHANGED <<segVars, section, activeSubSolver>>

Next == Step \/ StepTerminal \/ GetNodesWithPortPoints

Spec == Init /\ [][Next]_vars

NextSection == SectionStep \/ SectionStepTerminal

SpecSection == InitSectionSpec /\ [][NextSection]_vars

----------------------------------------------------------------------------
(* Helpers of the properties *)

\* The number of input segments
InputCount == Len(heap)

\* The value a/b of a rational
IsFraction(q, a, b) == q.num * b = a * q.den

\* The identities of the section nodes
SectionNodeIdSet ==
  {section.sectionNodes[i].capacityMeshNodeId :
     i \in 1..Len(section.sectionNodes)}

\* The nodes within r hops of f in the undirected graph of the edges
RECURSIVE WithinHops(_, _, _)
WithinHops(f, edges, r) ==
  IF r <= 0 THEN {f}
  ELSE LET inner == WithinHops(f, edges, r - 1)
       IN inner \cup
          {m \in NodeIds :
             \E i \in 1..Len(edges), n \in inner :
               {n, m} = Range(edges[i].nodeIds)}

\* The k-th smallest member of a set of indices
KthOf(S, k) == CHOOSE j \in S : Cardinality({i \in S : i <= j}) = k

ThePathGraph ==
  << [nodeIds |-> <<"n0", "n1">>], [nodeIds |-> <<"n2", "n1">>],
     [nodeIds |-> <<"n2", "n3">>] >>

----------------------------------------------------------------------------
(* C1 *)

\* C1 as claimed: after as many executed step() calls as there are input
\* segments the solver is solved (the empty list included).
C1_AsClaimed == iterations >= InputCount => solved

\* C1 (amended): step() can be called as long as the solver is unsolved, it
\* is solved after at most max(1, number of input segments) calls (the empty
\* list needs one call), it never fails, and the iteration cap is not reached
\* while the list is shorter than the cap.
C1_SolvedWithinInputCount ==
  /\ iterations >= Max(1, InputCount) => solved
  /\ iterations <= Max(1, InputCount)
  /\ ~solved => CanStep
  /\ ~failed
  /\ InputCount < MAX_ITERATIONS => iterations < MAX_ITERATIONS

\* A run that needed one step per segment
C1_Witness ==
  /\ solved
  /\ InputCount >= 2
  /\ iterations = InputCount

----------------------------------------------------------------------------
(* C2 *)

\* C2: getNodesWithPortPoints called while solved is false throws, returns no
\* value, and leaves the segment objects, unsolvedSegments, solvedSegments and
\* solved as they were.
C2_QueryBeforeSolvedThrows ==
  [][(lastCall'.op = "getNodesWithPortPoints" /\ ~solved) =>
       /\ lastCall'.threw
       /\ lastCall'.value = <<>>
       /\ UNCHANGED <<heap, unsolvedSegments, solvedSegments, solved, failed>>
    ]_vars

\* The query has thrown in an intermediate state that holds assigned points
C2_Witness ==
  /\ lastCall.op = "getNodesWithPortPoints"
  /\ lastCall.threw
  /\ ~solved
  /\ iterations >= 1
  /\ solvedSegments # <<>>

----------------------------------------------------------------------------
(* C3 *)

\* C3: the section node identities are exactly the nodes within
\* expansionDegrees hops of the focus node, each listed once; the focus node
\* is among them.
C3_SectionIsHopBall ==
  /\ SectionNodeIdSet =
       WithinHops(section.centerNodeId, section.edges, section.expansionDegrees)
  /\ section.centerNodeId \in SectionNodeIdSet
  /\ Cardinality(SectionNodeIdSet) = Len(section.sectionNodes)

\* The path graph n0-n1-n2-n3 with radius 1 and focus n1
C3_Witness ==
  /\ section.edges = ThePathGraph
  /\ section.centerNodeId = "n1"
  /\ section.expansionDegrees = 1
  /\ SectionNodeIdSet = {"n0", "n1", "n2"}

----------------------------------------------------------------------------
(* C4 *)

\* C4: sectionEdges is the sub-list, in input order, of the input edges whose
\* two endpoints are section nodes.
C4_SectionEdgesAreInducedEdges ==
  LET kept == {j \in 1..Len(section.edges) :
                 \A n \in Range(section.edges[j].nodeIds) :
                   n \in SectionNodeIdSet}
  IN /\ Len(section.sectionEdges) = Cardinality(kept)
     /\ \A k \in 1..Len(section.sectionEdges) :
          section.sectionEdges[k] = section.edges[KthOf(kept, k)]

\* The path graph with radius 1 around n1: n2-n3 is dropped
C4_Witness ==
  /\ section.edges = ThePathGraph
  /\ section.centerNodeId = "n1"
  /\ section.expansionDegrees = 1
  /\ section.sectionEdges = SubSeq(ThePathGraph, 1, 2)

----------------------------------------------------------------------------
(* C5 *)

\* The positions of a connection's path that lie in the section
PathHits(conn) ==
  IF conn.hasPath
  THEN {i \in 1..Len(conn.path) : conn.path[i] \in SectionNodeIdSet}
  ELSE {}

\* C5: sectionConnectionTerminals has, in input order, one entry per
\* connection whose path meets the section and none for the others; the entry
\* names the connection, the first and the last node of the path inside the
\* section.
C5_TerminalsAreTrimmedPaths ==
  LET conns == section.connectionsWithNodes
      terminals == section.sectionConnectionTerminals
      kept == {j \in 1..Len(conns) : PathHits(conns[j]) # {}}
  IN /\ Len(terminals) = Cardinality(kept)
     /\ \A k \in 1..Len(terminals) :
          LET conn == conns[KthOf(kept, k)]
              hits == PathHits(conn)
              first == CHOOSE i \in hits : \A j \in hits : i <= j
              last == CHOOSE i \in hits : \A j \in hits : i >= j
          IN /\ terminals[k].connectionName = conn.connection.name
             /\ terminals[k].startNodeId = conn.path[first]
             /\ terminals[k].endNodeId = conn.path[last]
             /\ terminals[k].startNodeId \in SectionNodeIdSet
             /\ terminals[k].endNodeId \in SectionNodeIdSet

\* A connection outside the section is omitted, another one is trimmed to
\* two different terminals
C5_Witness ==
  /\ Len(section.connectionsWithNodes) = 2
  /\ section.connectionsWithNodes[1].hasPath
  /\ section.sectionConnectionTerminals =
       << [connectionName |-> "c2", startNodeId |-> "n2",
           endNodeId |-> "n0"] >>

----------------------------------------------------------------------------
(* C6 *)

----------------------------------------------------------------------------
(* C7 *)

\* C7: a step of the extractor (one executed _step) forwards exactly one
\* step() to the sub-solver; the extractor is solved after it exactly if the
\* sub-solver is; while the sub-solver is neither solved nor failed the
\* extractor is neither.
C7_StepForwardsAndMirrors ==
  [][section'.iterations = section.iterations + 1 =>
       /\ activeSubSolver'.stepCalls = activeSubSolver.stepCalls + 1
       /\ section'.solved <=> activeSubSolver'.solved
       /\ (~activeSubSolver'.solved /\ ~activeSubSolver'.failed) =>
            (~section'.solved /\ ~section'.failed)
    ]_vars

\* Solved in the second step, after a first step that left both unsolved
C7_Witness ==
  /\ section.solved
  /\ ~section.failed
  /\ section.iterations = 2
  /\ activeSubSolver.stepCalls = 2
  /\ activeSubSolver.solved

----------------------------------------------------------------------------
(* C8 *)

\* C8: once solved, every segment with exactly one connection name carries
\* exactly one assigned point, for that name, at the midpoint of start and
\* end with z = availableZ[0].
C8_SingleConnectionMidpoint ==
  solved =>
    \A id \in DOMAIN heap :
      Len(heap[id].connectionNames) = 1 =>
        LET seg == heap[id] IN
        /\ seg.hasAssignedPoints
        /\ Len(seg.assignedPoints) = 1
        /\ seg.assignedPoints[1].connectionName = seg.connectionNames[1]
        /\ IsFraction(seg.assignedPoints[1].point.x,
                      seg.start.x + seg.end.x, 2)
        /\ IsFraction(seg.assignedPoints[1].point.y,
                      seg.start.y + seg.end.y, 2)
        /\ seg.assignedPoints[1].point.z = seg.availableZ[1]
        /\ id \in Range(solvedSegments)

\* Solved, with a single-connection segment that has two layers and a
\* fractional midpoint, next to a segment with several connections
C8_Witness ==
  /\ solved
  /\ \E id \in DOMAIN heap :
       /\ Len(heap[id].connectionNames) = 1
       /\ Len(heap[id].availableZ) = 2
       /\ heap[id].hasAssignedPoints
       /\ heap[id].assignedPoints[1].point.y = [num |-> 7, den |-> 2]
  /\ \E id \in DOMAIN heap : Len(heap[id].connectionNames) > 1

----------------------------------------------------------------------------
(* C9 *)

\* The number of times x occurs in the sequence s
Count(s, x) == Cardinality({i \in 1..Len(s) : s[i] = x})

\* C9: a segment resolved by the fallback with n connection names carries n
\* assigned points; their names are the segment's names in sorted order and
\* the i-th point is start + (i/(n+1)) * (end - start) with z = availableZ[0].
\* Names C, A, B on (0,0)-(9,0) give A 9/4, B 9/2, C 27/4.
C9_FallbackEvenSpacing ==
  \A id \in DOMAIN heap :
    resolvedBy[id] = "B" =>
      LET seg == heap[id]
          ap == seg.assignedPoints
          n == Len(seg.connectionNames)
      IN /\ seg.hasAssignedPoints
         /\ Len(ap) = n
         /\ \A i \in 1..n :
              /\ Count([k \in 1..n |-> ap[k].connectionName],
                       ap[i].connectionName)
                   = Count(seg.connectionNames, ap[i].connectionName)
              /\ \A j \in (i + 1)..n :
                   ~StrLess(ap[j].connectionName, ap[i].connectionName)
              /\ IsFraction(ap[i].point.x,
                            seg.start.x * (n + 1)
                              + i * (seg.end.x - seg.start.x), n + 1)
              /\ IsFraction(ap[i].point.y,
                            seg.start.y * (n + 1)
                              + i * (seg.end.y - seg.start.y), n + 1)
              /\ ap[i].point.z = seg.availableZ[1]
         /\ (seg.connectionNames = <<StrC, StrA, StrB>> /\ seg.end.x = 9) =>
              ap = << [connectionName |-> StrA,
                       point |-> [x |-> [num |-> 9, den |-> 4],
                                  y |-> [num |-> 0, den |-> 1], z |-> 0]],
                      [connectionName |-> StrB,
                       point |-> [x |-> [num |-> 9, den |-> 2],
                                  y |-> [num |-> 0, den |-> 1], z |-> 0]],
                      [connectionName |-> StrC,
                       point |-> [x |-> [num |-> 27, den |-> 4],
                                  y |-> [num |-> 0, den |-> 1], z |-> 0]] >>

\* The fallback has resolved the segment C, A, B on (0,0)-(9,0)
C9_Witness ==
  \E id \in DOMAIN heap :
    /\ resolvedBy[id] = "B"
    /\ heap[id].connectionNames = <<StrC, StrA, StrB>>
    /\ heap[id].end.x = 9
    /\ heap[id].hasAssignedPoints

----------------------------------------------------------------------------
(* C10 *)

\* C10: a segment that has its assigned points keeps them unchanged, is not
\* in the unassigned collection after any later step, keeps its place in the
\* assigned collection, and is not appended to it again.
C10_AssignmentIsFinal ==
  [][/\ \A id \in DOMAIN heap :
          heap[id].hasAssignedPoints =>
            /\ heap'[id] = heap[id]
            /\ id \notin Range(unsolvedSegments')
            /\ resolvedBy'[id] = resolvedBy[id]
     /\ Len(solvedSegments') >= Len(solvedSegments)
     /\ SubSeq(solvedSegments', 1, Len(solvedSegments)) = solvedSegments
     /\ \A k \in (Len(solvedSegments) + 1)..Len(solvedSegments') :
          ~heap[solvedSegments'[k]].hasAssignedPoints
    ]_vars

\* A segment assigned by the first step is still there after a fallback step
C10_Witness ==
  /\ iterations >= 2
  /\ \E id \in DOMAIN heap : resolvedBy[id] = "A"
  /\ \E id \in DOMAIN heap : resolvedBy[id] = "B"

----------------------------------------------------------------------------
(* C11 *)

\* C11: whenever solved is true, unsolvedSegments is empty and every input
\* segment is in solvedSegments with as many assigned points as it has
\* connection names.
C11_SolvedMeansAllAssigned ==
  solved =>
    /\ unsolvedSegments = <<>>
    /\ \A id \in DOMAIN heap :
         /\ id \in Range(solvedSegments)
         /\ heap[id].hasAssignedPoints
         /\ Len(heap[id].assignedPoints) = Len(heap[id].connectionNames)

\* Solved with three segments of 0, 1 and 3 connection names
C11_Witness ==
  /\ solved
  /\ InputCount = 3
  /\ \E a, b, c \in DOMAIN heap :
       /\ Len(heap[a].assignedPoints) = 0
       /\ Len(heap[b].assignedPoints) = 1
       /\ Len(heap[c].assignedPoints) = 3

----------------------------------------------------------------------------
(* C16 *)

\* C16: in every state each input segment is in exactly one of
\* unsolvedSegments and solvedSegments, exactly once; a segment in
\* unsolvedSegments has no assigned points and a segment in solvedSegments
\* has them, one per connection name.
C16_CollectionsPartitionInput ==
  /\ Len(unsolvedSegments) + Len(solvedSegments) = InputCount
  /\ \A id \in DOMAIN heap :
       /\ Count(unsolvedSegments, id) + Count(solvedSegments, id) = 1
       /\ Count(unsolvedSegments, id) = 1 => ~heap[id].hasAssignedPoints
       /\ Count(solvedSegments, id) = 1 =>
            /\ heap[id].hasAssignedPoints
            /\ Len(heap[id].assignedPoints) = Len(heap[id].connectionNames)
  /\ Range(unsolvedSegments) \cup Range(solvedSegments) = DOMAIN heap

\* An intermediate state: one segment assigned, two still unassigned
C16_Witness ==
  /\ ~solved
  /\ iterations = 1
  /\ Len(solvedSegments) = 1
  /\ Len(unsolvedSegments) = 2

----------------------------------------------------------------------------
(* C19 *)

\* C19: the extractor is never solved and failed at once; when the
\* sub-solver reports solved and failed together the extractor is solved,
\* not failed, and its error is still null.
C19_SolvedExcludesFailed ==
  /\ ~(section.solved /\ section.failed)
  /\ (activeSubSolver.solved /\ activeSubSolver.failed) =>
       /\ section.solved
       /\ ~section.failed
       /\ section.error = <<>>
  /\ section.solved => section.error = <<>>

\* The sub-solver has reported solved and failed in the same step
C19_Witness ==
  /\ activeSubSolver.solved
  /\ activeSubSolver.failed
  /\ activeSubSolver.error # <<>>
  /\ section.solved
  /\ section.iterations >= 1

----------------------------------------------------------------------------
(* C20 *)

\* A segment object as it was handed to the constructor
AsInput(seg) == [seg EXCEPT !.hasAssignedPoints = FALSE, !.assignedPoints = <<>>]

\* The assigned points a solver run on the one segment alone produces
SoloAssignedPoints(seg) ==
  InnerStep(<<AsInput(seg)>>, <<1>>, <<>>, FALSE).heap[1].assignedPoints

----------------------------------------------------------------------------
(* C14 *)

\* The unassigned segments with exactly one connection name
UnassignedSingles ==
  {id \in Range(unsolvedSegments) : Len(heap[id].connectionNames) = 1}

\* The segments the step moves to solvedSegments
MovedByStep == Range(solvedSegments') \ Range(solvedSegments)

----------------------------------------------------------------------------
(* C15 *)

\* C15: a fallback step moves exactly one segment, the first one in
\* unsolvedSegments among those with the fewest connection names; all other
\* segments keep their place and their contents.
C15_FallbackTakesFirstOfFewest ==
  [][(/\ iterations' = iterations + 1
      /\ \E id \in DOMAIN heap :
           resolvedBy[id] = "none" /\ resolvedBy'[id] = "B") =>
       \E k \in 1..Len(unsolvedSegments) :
         /\ \A j \in 1..Len(unsolvedSegments) :
              Len(heap[unsolvedSegments[j]].connectionNames)
                >= Len(heap[unsolvedSegments[k]].connectionNames)
         /\ \A j \in 1..(k - 1) :
              Len(heap[unsolvedSegments[j]].connectionNames)
                > Len(heap[unsolvedSegments[k]].connectionNames)
         /\ unsolvedSegments' = RemoveAt(unsolvedSegments, k)
         /\ solvedSegments' = Append(solvedSegments, unsolvedSegments[k])
         /\ heap'[unsolvedSegments[k]].hasAssignedPoints
         /\ \A id \in DOMAIN heap :
              id # unsolvedSegments[k] => heap'[id] = heap[id]
    ]_vars

\* The fallback has taken the first of two segments with equally many
\* connection names; the second one is still unassigned
C15_Witness ==
  \E i, j \in DOMAIN heap :
    /\ i < j
    /\ Len(heap[i].connectionNames) = Len(heap[j].connectionNames)
    /\ heap[i].start # heap[j].start
    /\ resolvedBy[i] = "B"
    /\ resolvedBy[j] = "none"
    /\ j \in Range(unsolvedSegments)

----------------------------------------------------------------------------
(* C18 *)

\* f[1] + ... + f[n]
RECURSIVE SumTo(_, _)
SumTo(f, n) == IF n = 0 THEN 0 ELSE f[n] + SumTo(f, n - 1)

\* The mesh nodes that own an input segment
OwningNodeIds == {heap[id].capacityMeshNodeId : id \in DOMAIN heap}

\* How often the port point p is an assigned point of the segment seg
TimesAssigned(seg, p) ==
  Cardinality({i \in 1..Len(seg.assignedPoints) :
                 /\ seg.assignedPoints[i].connectionName = p.connectionName
                 /\ seg.assignedPoints[i].point.x = p.x
                 /\ seg.assignedPoints[i].point.y = p.y
                 /\ seg.assignedPoints[i].point.z = p.z})

\* A value returned by getNodesWithPortPoints, against the solver's state
IsPortPointReport(value) ==
  /\ Len(value) = Cardinality(OwningNodeIds)
  /\ {value[i].capacityMeshNodeId : i \in 1..Len(value)} = OwningNodeIds
  /\ \A i \in 1..Len(value) :
       LET nodeId == value[i].capacityMeshNodeId
           pp == value[i].portPoints
           own == [id \in DOMAIN heap |->
                     heap[id].capacityMeshNodeId = nodeId]
       IN /\ \E k \in 1..Len(Nodes) :
               /\ Nodes[k].capacityMeshNodeId = nodeId
               /\ value[i].center = Nodes[k].center
               /\ value[i].width = Nodes[k].width
               /\ value[i].height = Nodes[k].height
          /\ Len(pp) =
               SumTo([id \in DOMAIN heap |->
                        IF own[id] THEN Len(heap[id].connectionNames) ELSE 0],
                     InputCount)
          /\ \A j \in 1..Len(pp) :
               Count(pp, pp[j]) =
                 SumTo([id \in DOMAIN heap |->
                          IF own[id] THEN TimesAssigned(heap[id], pp[j])
                          ELSE 0],
                       InputCount)

\* C18: a value returned by getNodesWithPortPoints (the solver is solved
\* then) has one record per mesh node that owns an input segment and none
\* for other nodes, with that node's center, width and height, and with the
\* assigned points of the node's segments, each once and with its connection
\* name, as many as the segments have connection names; the call leaves the
\* solver's state unchanged.
C18_PortPointsGroupedByNode ==
  /\ []((lastCall.op = "getNodesWithPortPoints" /\ ~lastCall.threw) =>
          (solved /\ IsPortPointReport(lastCall.value)))
  /\ [][lastCall'.op = "getNodesWithPortPoints" =>
          /\ solved => ~lastCall'.threw
          /\ UNCHANGED <<heap, unsolvedSegments, solvedSegments, solved,
                         failed, iterations>>
       ]_vars

\* The query has returned two records for three segments, one record with
\* the points of two segments
C18_Witness ==
  /\ lastCall.op = "getNodesWithPortPoints"
  /\ ~lastCall.threw
  /\ InputCount = 3
  /\ Len(lastCall.value) = 2
  /\ \E i \in 1..2 : Len(lastCall.value[i].portPoints) >= 4

----------------------------------------------------------------------------
(* C17 *)

\* C17: the section is computed in the constructor: sectionNodes,
\* sectionEdges and sectionConnectionTerminals are from construction on the
\* values handed to the sub-solver, and no step changes them, the input
\* nodes, edges and connection paths, the focus node or the radius.
C17_SectionIsFixedAtConstruction ==
  /\ [](/\ activeSubSolver.sectionNodes = section.sectionNodes
        /\ activeSubSolver.sectionEdges = section.sectionEdges
        /\ activeSubSolver.sectionConnectionTerminals
             = section.sectionConnectionTerminals)
  /\ [][/\ section'.sectionNodes = section.sectionNodes
        /\ section'.sectionEdges = section.sectionEdges
        /\ section'.sectionConnectionTerminals
             = section.sectionConnectionTerminals
        /\ section'.nodes = section.nodes
        /\ section'.edges = section.edges
        /\ section'.connectionsWithNodes = section.connectionsWithNodes
        /\ section'.centerNodeId = section.centerNodeId
        /\ section'.expansionDegrees = section.expansionDegrees
       ]_vars

\* Two steps were taken, up to a failure of the sub-solver, on a section
\* with edges and terminals
C17_Witness ==
  /\ section.iterations = 2
  /\ section.failed
  /\ Len(section.sectionEdges) >= 2
  /\ Len(section.sectionConnectionTerminals) >= 1
  /\ Len(section.sectionNodes) >= 3

----------------------------------------------------------------------------
(* C12 *)

\* Both solvers side by side, each driven by its own step() calls
InitBoth ==
  /\ \E n \in 0..(MaxSegments - 2) : InitSegments(n)
  /\ InitSection({"n1"}, ConnectionLists, {ThePathGraph}, {<<1>>})
  /\ lastCall = NoCall

NextBoth ==
  \/ Step
  \/ StepTerminal
  \/ GetNodesWithPortPoints
  \/ SectionStep
  \/ SectionStepTerminal

SpecBoth == InitBoth /\ [][NextBoth]_vars

\* C12: a call on a solver that is solved or failed changes nothing of it:
\* for CapacitySegmentToPointSolver the segment objects, unsolvedSegments,
\* solvedSegments and the flags stay as they are, for
\* CapacityPathingSingleSectionSolver solved, failed, error and the section
\* stay as they are and the sub-solver receives no further step().
C12_TerminalStepIsNoOp ==
  [][/\ (solved \/ failed) =>
          UNCHANGED <<heap, unsolvedSegments, solvedSegments, solved, failed,
                      iterations, resolvedBy>>
     /\ (section.solved \/ section.failed) =>
          /\ section' = section
          /\ activeSubSolver' = activeSubSolver
    ]_vars

\* step() was called on the failed extractor while the segment solver,
\* holding assigned segments, was solved
C12_Witness ==
  /\ lastCall.op = "sectionStepTerminal"
  /\ section.failed
  /\ activeSubSolver.stepCalls = section.iterations
  /\ solved
  /\ Len(solvedSegments) >= 1

====
